---- MODULE Spec2Model ----
(***************************************************************************)
(* VocalBridgeOps backend: the message pipeline (sendMessage), the        *)
(* in-memory session lock, the sequence generator, the billing recorder   *)
(* (createUsageEvent) and the database-backed job worker.                 *)
(*                                                                         *)
(* Time is abstracted to the two comparisons the code makes on it:        *)
(* a session lock is "fresh" or "stale" (now - timestamp > lockTimeoutMs) *)
(* and a job lease is unexpired or expired (lockExpiresAt < now).         *)
(***************************************************************************)
EXTENDS Integers, Sequences, FiniteSets, TLC

\* ------------------------------------------------------------------ bounds
MaxCalls == 2          \* sendMessage invocations in one behaviour
MaxInvocations == 3    \* createUsageEvent invocations in one behaviour
MaxWorkers == 2        \* job worker processes
MaxJobs == 1           \* job rows
MaxCrashes == 3        \* worker process crashes in one behaviour
MaxRuns == 3           \* sendMessage invocations made by job executions

Calls == 1..MaxCalls
Billers == 1..MaxInvocations
Workers == 1..MaxWorkers
Jobs == 1..MaxJobs
Runs == 1..MaxRuns
MaxCreators == 3       \* createSession invocations in one behaviour
Creators == 1..MaxCreators
MaxSubmitters == 3     \* async message submissions in one behaviour
Submitters == 1..MaxSubmitters

\* ------------------------------------------------------- fixed population
Tenants == {"T1", "T2"}
Sessions == {"S1"}
NoKey == "none"
Keys == {"K"}
KeyOpts == Keys \cup {NoKey}

\* sessions.tenantId
SessionTenant(s) == "T1"

\* SHA-256 of the session id, first 8 bytes: distinct ids give distinct keys
uuidToLockKey(s) == <<"sha256", s>>
LockKeys == {uuidToLockKey(s) : s \in Sessions}

\* ------------------------------------------------------------------ state
VARIABLES
  sessionLocks,    \* lock key -> "absent" | "fresh" | "stale"
  sessions,        \* session id -> [status, demoMode]
  messages,        \* set of message rows
  providerCalls,   \* provider call id -> provider_calls row
  usageEvents,     \* provider call id -> number of usage_events rows
  toolExecutions,  \* number of tool_executions rows
  call,            \* call -> state of one sendMessage invocation
  bill,            \* biller -> state of one createUsageEvent invocation
  jobs,            \* job id -> jobs row
  worker,          \* worker -> state of one JobWorker process
  callbacks,       \* job id -> the POSTs the job's callbackUrl has received
  crashes,         \* worker process crashes so far
  orch,            \* the orchestrator run a message's provider step awaits
  history,         \* the conversation history rebuilt for the follow-up call
  create,          \* creator -> state of one createSession invocation
  submit           \* submitter -> state of one async message submission

vars == <<sessionLocks, sessions, messages, providerCalls, usageEvents,
          toolExecutions, call, bill, jobs, worker, callbacks, crashes,
          orch, history, create, submit>>

\* the orchestrator keeps no state between runs: only its own steps move orch
msgVars == <<sessionLocks, sessions, messages, providerCalls, usageEvents,
             toolExecutions, call, bill, orch, history,
             create, submit>>
msgVars_NoCreate == <<sessionLocks, sessions, messages, providerCalls,
                      usageEvents, toolExecutions, call, bill, orch, history,
                      submit>>
jobVars == <<jobs, worker, callbacks, crashes, orch, history, create,
            submit>>

Max(S) == IF S = {} THEN 0 ELSE CHOOSE x \in S : \A y \in S : y <= x

\* ------------------------------------------------------------ message rows
SessionMessages(s) == {m \in messages : m.sessionId = s}

\* get_next_message_sequence: COALESCE(MAX("sequenceNumber"), 0) + 1
get_next_message_sequence(s) ==
  Max({m.sequenceNumber : m \in SessionMessages(s)}) + 1

\* the unique index messages_sessionId_idempotencyKey_key (a NULL key never
\* collides)
IdempotencyKeyTaken(row) ==
  /\ row.idempotencyKey # NoKey
  /\ \E m \in messages : /\ m.sessionId = row.sessionId
                         /\ m.idempotencyKey = row.idempotencyKey

\* the unique index messages_sessionId_sequenceNumber_key
SequenceNumberTaken(row) ==
  \E m \in messages : /\ m.sessionId = row.sessionId
                      /\ m.sequenceNumber = row.sequenceNumber

\* as MessageUniqueViolation, with the index on (sessionId, sequenceNumber)
\* missing
MessageUniqueViolation_NoSequenceIndex(row) ==
  IF IdempotencyKeyTaken(row) THEN "idempotencyKey" ELSE "none"

\* the constraint an INSERT into messages fails on ("none": it succeeds)
MessageUniqueViolation(row) ==
  IF IdempotencyKeyTaken(row) THEN "idempotencyKey"
  ELSE IF SequenceNumberTaken(row) THEN "sequenceNumber"
  ELSE "none"

NoMessage == [id |-> <<0, "none">>]
NoProviderCall == <<0, 0>>

\* findByIdempotencyKey: the USER row with the key, then the ASSISTANT row at
\* sequenceNumber + 1 (NoMessage stands for null)
UserMessagesWithKey(s, k) ==
  {m \in messages : m.sessionId = s /\ m.idempotencyKey = k /\ m.role = "USER"}

findByIdempotencyKey(s, k) ==
  LET users == UserMessagesWithKey(s, k)
  IN IF users = {} THEN NoMessage
     ELSE LET u == CHOOSE m \in users : TRUE
              as == {m \in messages : /\ m.sessionId = s
                                      /\ m.sequenceNumber = u.sequenceNumber + 1
                                      /\ m.role = "ASSISTANT"}
          IN IF as = {} THEN NoMessage ELSE CHOOSE m \in as : TRUE

\* formatMessageResponse: id, content and the metadata read off the
\* message's ProviderCall row (identified here with that row)
formatMessageResponse(m) ==
  [kind |-> "response", id |-> m.id, sessionId |-> m.sessionId,
   content |-> m.content, metadata |-> m.providerCallId]

Error(code) == [kind |-> "error", code |-> code, target |-> "none"]
\* Prisma's P2002: a unique constraint failed on `target`
UniqueConstraintError(target) ==
  [kind |-> "error", code |-> "P2002", target |-> target]
NoRet == [kind |-> "none"]

\* the HTTP status the error handler answers with: AppError.statusCode, and
\* 500 for an error that is no AppError
statusCode(code) ==
  CASE code = "VALIDATION_ERROR" -> 400
    [] code = "NOT_FOUND" -> 404
    [] code = "CONFLICT" -> 409
    [] code = "PROVIDER_ERROR" -> 502
    [] OTHER -> 500

\* ------------------------------------------------------------------- init
\* lockedAt orders the sessionLocks.set calls of the calls that are inside
\* the critical section (the timestamp of the entry the call created)
IdleCall ==
  [pc |-> "idle", tenantId |-> "T1", sessionId |-> "S1",
   idempotencyKey |-> NoKey, userFound |-> FALSE, seq |-> 0, lockedAt |-> 0,
   initialProviderCall |-> NoProviderCall,
   finalProviderCall |-> NoProviderCall, assistantMessage |-> NoMessage,
   ret |-> NoRet]

IdleBill == [st |-> "idle", providerCallId |-> NoProviderCall, count |-> 0]

IdleWorker == [pc |-> "stopped", job |-> 0, attempts |-> 0]

\* agent.primaryProvider / agent.fallbackProvider (nullable)
NoProvider == "none"
primaryProvider == "VENDOR_A"
FallbackOpts == {NoProvider, "VENDOR_A", "VENDOR_B"}

\* no executeWithResilience run yet: round counts the runs the message has
\* started, attempt is the loop variable of executeWithRetry, attemptNumber
\* is retryState.attemptNumber, errors is retryState.errors, adapterCalls
\* counts the adapter.sendMessage calls and sleeps the backoff sleeps;
\* result and isFallback are fields of the ProviderCallResult returned
IdleOrch ==
  [round |-> 0, phase |-> "idle", provider |-> NoProvider,
   fallbackProvider |-> NoProvider, attempt |-> 0, attemptNumber |-> 0,
   errors |-> <<>>, result |-> "none", adapterCalls |-> 0, sleeps |-> 0,
   isFallback |-> FALSE]

OrchIdle == orch = IdleOrch

\* no history loaded
NoHistory == [loaded |-> FALSE, messages |-> <<>>]

\* the steps followed in one specification only are at rest in the others
IdleCreate ==
  [pc |-> "idle", customerId |-> "none", demoMode |-> FALSE, caught |-> FALSE,
   ret |-> NoRet]

IdleSubmit ==
  [pc |-> "idle", callbackUrl |-> FALSE, idempotencyKey |-> NoKey,
   ret |-> NoRet]

SideIdle ==
  /\ history = NoHistory
  /\ create = [cr \in Creators |-> IdleCreate]
  /\ submit = [sb \in Submitters |-> IdleSubmit]

MsgInit ==
  /\ sessionLocks = [k \in LockKeys |-> "absent"]
  /\ sessions = [s \in Sessions |-> [status |-> "ACTIVE", demoMode |-> FALSE]]
  /\ messages = {}
  /\ providerCalls = [p \in {} |-> 0]
  /\ usageEvents = [p \in {} |-> 0]
  /\ toolExecutions = 0
  /\ call = [c \in Calls |-> IdleCall]
  /\ bill = [b \in Billers |-> IdleBill]

JobIdle ==
  /\ jobs = [j \in {} |-> 0]
  /\ worker = [w \in Workers |-> IdleWorker]
  /\ callbacks = [j \in Jobs |-> <<>>]
  /\ crashes = 0

Init == MsgInit /\ JobIdle /\ OrchIdle /\ SideIdle


\* ------------------------------------------------------------ session lock
ReleaseLock_Skipped(s) == UNCHANGED sessionLocks

\* the finally block of withSessionLock: sessionLocks.delete(lockKeyStr)
ReleaseLock(s) ==
  sessionLocks' = [sessionLocks EXCEPT ![uuidToLockKey(s)] = "absent"]

\* the state of a call that has ended with result r
Finished(c, r) ==
  [IdleCall EXCEPT !.pc = "done", !.ret = r, !.tenantId = call[c].tenantId,
                   !.sessionId = call[c].sessionId,
                   !.idempotencyKey = call[c].idempotencyKey,
                   !.userFound = call[c].userFound]

\* how a call ended: with the formatted response, or with an exception
Returned(c) == call[c].pc = "done" /\ call[c].ret.kind = "response"
Failed(c) == call[c].pc = "done" /\ call[c].ret.kind = "error"

\* an exception leaving the critical section: the finally block runs and the
\* error reaches the caller
Throw(c, err) ==
  /\ call' = [call EXCEPT ![c] = Finished(c, err)]
  /\ ReleaseLock(call[c].sessionId)

\* withSessionLock up to the call of fn: existing?.locked -> ConflictError,
\* otherwise sessionLocks.set(key, {locked: true, timestamp: now})
LockIsHeld(k) == sessionLocks[k] # "absent"

withSessionLock(c) ==
  /\ call[c].pc = "lock"
  /\ LET k == uuidToLockKey(call[c].sessionId)
     IN IF LockIsHeld(k)
        THEN /\ call' = [call EXCEPT ![c] = Finished(c, Error("CONFLICT"))]
             /\ UNCHANGED sessionLocks
        ELSE /\ sessionLocks' = [sessionLocks EXCEPT ![k] = "fresh"]
             /\ call' = [call EXCEPT
                  ![c].pc = "load",
                  ![c].lockedAt =
                    1 + Max({call[d].lockedAt : d \in DOMAIN call})]
  /\ UNCHANGED <<sessions, messages, providerCalls, usageEvents,
                 toolExecutions, bill, jobVars>>

\* time passing: now - lock.timestamp exceeds config.session.lockTimeoutMs
LockTimeoutPasses(k) ==
  /\ sessionLocks[k] = "fresh"
  /\ sessionLocks' = [sessionLocks EXCEPT ![k] = "stale"]
  /\ UNCHANGED <<sessions, messages, providerCalls, usageEvents,
                 toolExecutions, call, bill, jobVars>>

\* the setInterval callback: delete every locked entry older than the timeout
LockCleanup ==
  /\ \E k \in LockKeys : sessionLocks[k] = "stale"
  /\ sessionLocks' = [k \in LockKeys |->
                        IF sessionLocks[k] = "stale" THEN "absent"
                        ELSE sessionLocks[k]]
  /\ UNCHANGED <<sessions, messages, providerCalls, usageEvents,
                 toolExecutions, call, bill, jobVars>>

\* ------------------------------------------------------------- sendMessage
\* Step 1: the idempotency pre-check; t is the authenticated tenant
IdempotencyPreCheck(c, t, s, k) ==
  /\ call[c].pc = "idle"
  /\ \A d \in Calls : d < c => call[d].pc # "idle"
  /\ LET existing == IF k = NoKey THEN NoMessage
                     ELSE findByIdempotencyKey(s, k)
         base == [call[c] EXCEPT
                    !.tenantId = t, !.sessionId = s, !.idempotencyKey = k,
                    !.userFound = (k # NoKey /\ UserMessagesWithKey(s, k) # {})]
     IN IF existing # NoMessage
        THEN call' = [call EXCEPT ![c] =
                        [base EXCEPT !.pc = "done",
                                     !.ret = formatMessageResponse(existing)]]
        ELSE call' = [call EXCEPT ![c] = [base EXCEPT !.pc = "lock"]]

\* POST /sessions/:sessionId/messages
sendMessage(c, t, s, k) ==
  /\ IdempotencyPreCheck(c, t, s, k)
  /\ UNCHANGED <<sessionLocks, sessions, messages, providerCalls, usageEvents,
                 toolExecutions, bill, jobVars>>

getSessionWithAgent_NoStatusCheck(c) ==
  /\ call[c].pc = "load"
  /\ IF SessionTenant(call[c].sessionId) # call[c].tenantId
     THEN Throw(c, Error("NOT_FOUND"))
     ELSE /\ call' = [call EXCEPT ![c].pc = "seqUser"]
          /\ UNCHANGED sessionLocks
  /\ UNCHANGED <<sessions, messages, providerCalls, usageEvents,
                 toolExecutions, bill, jobVars>>

\* Step 3: getSessionWithAgent(tenantId, sessionId) and the status check
getSessionWithAgent(c) ==
  /\ call[c].pc = "load"
  /\ IF SessionTenant(call[c].sessionId) # call[c].tenantId
     THEN Throw(c, Error("NOT_FOUND"))
     ELSE IF sessions[call[c].sessionId].status # "ACTIVE"
     THEN Throw(c, Error("VALIDATION_ERROR"))
     ELSE /\ call' = [call EXCEPT ![c].pc = "seqUser"]
          /\ UNCHANGED sessionLocks
  /\ UNCHANGED <<sessions, messages, providerCalls, usageEvents,
                 toolExecutions, bill, jobVars>>

\* getNextSequenceNumber: one statement that runs get_next_message_sequence;
\* the row lock it takes ends with the statement
getNextSequenceNumber(c) ==
  /\ call[c].pc \in {"seqUser", "seqInterim", "seqTool", "seqFinal"}
  /\ call' = [call EXCEPT
       ![c].seq = get_next_message_sequence(call[c].sessionId),
       ![c].pc = CASE call[c].pc = "seqUser" -> "insUser"
                   [] call[c].pc = "seqInterim" -> "insInterim"
                   [] call[c].pc = "seqTool" -> "insTool"
                   [] OTHER -> "insFinal"]
  /\ UNCHANGED <<sessionLocks, sessions, messages, providerCalls, usageEvents,
                 toolExecutions, bill, jobVars>>

MessageRow_KeyDropped(c, kind, role, key, pcid) ==
  [id |-> <<c, kind>>, sessionId |-> call[c].sessionId,
   sequenceNumber |-> call[c].seq, idempotencyKey |-> NoKey, role |-> role,
   content |-> <<c, kind>>, toolCalls |-> (kind = "interim"),
   providerCallId |-> pcid]

\* the data of a prisma.message.create
MessageRow(c, kind, role, key, pcid) ==
  [id |-> <<c, kind>>, sessionId |-> call[c].sessionId,
   sequenceNumber |-> call[c].seq, idempotencyKey |-> key, role |-> role,
   content |-> <<c, kind>>, toolCalls |-> (kind = "interim"),
   providerCallId |-> pcid]

\* prisma.message.create: a unique violation (P2002) is not caught anywhere
\* in sendMessage
messageCreate(c, row, nextPc) ==
  IF MessageUniqueViolation(row) # "none"
  THEN /\ Throw(c, UniqueConstraintError(MessageUniqueViolation(row)))
       /\ UNCHANGED messages
  ELSE /\ messages' = messages \cup {row}
       /\ call' = [call EXCEPT ![c].pc = nextPc]
       /\ UNCHANGED sessionLocks

\* Step 5: store the user message
StoreUserMessage(c) ==
  /\ call[c].pc = "insUser"
  /\ messageCreate(c, MessageRow(c, "user", "USER", call[c].idempotencyKey,
                                 NoProviderCall), "provider")
  /\ UNCHANGED <<sessions, providerCalls, usageEvents, toolExecutions, bill,
                 jobVars>>

\* getProviderCallStatus
getProviderCallStatus(code) ==
  CASE code = "TIMEOUT" -> "TIMEOUT"
    [] code = "RATE_LIMITED" -> "RATE_LIMITED"
    [] OTHER -> "FAILED"

\* what executeWithResilience can report: a text answer, an answer carrying
\* tool calls, or the error code of a total failure
ProviderOutcomes == {"text", "tools", "PROVIDER_ERROR"}
Succeeded(o) == o \in {"text", "tools"}

\* prisma.providerCall.create: a fresh id per row
providerCallCreate(id, row) ==
  providerCalls' = [p \in DOMAIN providerCalls \cup {id} |->
                      IF p = id THEN row ELSE providerCalls[p]]

\* isFallback is copied from the orchestrator's result (false where the
\* orchestrator run is not followed)
ProviderCallRow(c, o) ==
  [sessionId |-> call[c].sessionId, by |-> c, billed |-> FALSE,
   status |-> IF Succeeded(o) THEN "SUCCESS" ELSE getProviderCallStatus(o),
   isFallback |-> orch.isFallback]

\* Steps 6-7: call the orchestrator, persist the ProviderCall, throw on failure
CallProvider(c, o) ==
  /\ call[c].pc = "provider"
  /\ providerCallCreate(<<c, 1>>, ProviderCallRow(c, o))
  /\ LET id == <<c, 1>>
     IN IF ~Succeeded(o)
        THEN Throw(c, Error("VALIDATION_ERROR"))
        ELSE /\ UNCHANGED sessionLocks
             /\ IF o = "tools"
                THEN call' = [call EXCEPT ![c].pc = "seqInterim",
                                          ![c].initialProviderCall = id,
                                          ![c].finalProviderCall = id]
                ELSE call' = [call EXCEPT ![c].pc = "seqFinal",
                                          ![c].finalProviderCall = id]
  /\ UNCHANGED <<sessions, messages, usageEvents, toolExecutions, bill,
                 jobVars>>

\* Step 8: the interim assistant message carrying the tool calls
StoreInterimMessage(c) ==
  /\ call[c].pc = "insInterim"
  /\ messageCreate(c, MessageRow(c, "interim", "ASSISTANT", NoKey,
                                 call[c].initialProviderCall), "tools")
  /\ UNCHANGED <<sessions, providerCalls, usageEvents, toolExecutions, bill,
                 jobVars>>

executeToolCalls_NoAudit(c) ==
  /\ call[c].pc = "tools"
  /\ call' = [call EXCEPT ![c].pc = "seqTool"]
  /\ UNCHANGED <<sessionLocks, sessions, messages, providerCalls, usageEvents,
                 toolExecutions, bill, jobVars>>

\* the tools the registry holds, the names a provider response can carry
\* and the values of agent.enabledTools (validated against the registry)
RegisteredTools == {"InvoiceLookup"}
ToolNames == RegisteredTools \cup {"OtherTool"}
EnabledToolsOpts == SUBSET RegisteredTools

\* what tool.execute raced against the timeout can do
ToolOutcomes == {"success", "failure", "threw", "timeout"}

\* ToolRegistry.execute: NotFoundError / ForbiddenError are thrown before
\* anything is stored; otherwise the status of the stored ToolExecution row
ToolRejected(toolName, agentEnabledTools) ==
  toolName \notin RegisteredTools \/ toolName \notin agentEnabledTools

ToolExecutionStatus(outcome) ==
  CASE outcome = "success" -> "SUCCESS"
    [] outcome = "timeout" -> "TIMEOUT"
    [] OTHER -> "FAILED"

\* the ToolExecution rows one registry invocation stores
ToolExecutionRows(toolName, agentEnabledTools, outcome) ==
  IF ToolRejected(toolName, agentEnabledTools) THEN {}
  ELSE {[toolName |-> toolName, status |-> ToolExecutionStatus(outcome)]}

\* executeToolCalls for a response with one tool call: the registry is
\* invoked and whatever it throws becomes the error of the tool result
ExecuteToolCall(c, toolName, agentEnabledTools, outcome) ==
  /\ call[c].pc = "tools"
  /\ toolExecutions' = toolExecutions +
       Cardinality(ToolExecutionRows(toolName, agentEnabledTools, outcome))
  /\ call' = [call EXCEPT ![c].pc = "seqTool"]
  /\ UNCHANGED <<sessionLocks, sessions, messages, providerCalls, usageEvents,
                 bill, jobVars>>

\* executeToolCalls -> toolRegistry.execute for a call of the agent's enabled
\* InvoiceLookup tool: one audit row per executed tool
executeToolCalls(c) ==
  \E outcome \in ToolOutcomes :
    ExecuteToolCall(c, "InvoiceLookup", {"InvoiceLookup"}, outcome)

StoreToolMessage(c) ==
  /\ call[c].pc = "insTool"
  /\ messageCreate(c, MessageRow(c, "tool", "TOOL", NoKey, NoProviderCall),
                   "provider2")
  /\ UNCHANGED <<sessions, providerCalls, usageEvents, toolExecutions, bill,
                 jobVars>>

\* the follow-up provider call with the tool results
CallProviderWithToolResults(c, o) ==
  /\ call[c].pc = "provider2"
  /\ o # "tools"
  /\ providerCallCreate(<<c, 2>>, ProviderCallRow(c, o))
  /\ IF ~Succeeded(o)
     THEN Throw(c, Error("VALIDATION_ERROR"))
     ELSE /\ UNCHANGED sessionLocks
          /\ call' = [call EXCEPT ![c].pc = "seqFinal",
                        ![c].finalProviderCall = <<c, 2>>]
  /\ UNCHANGED <<sessions, messages, usageEvents, toolExecutions, bill,
                 jobVars>>

\* Step 9: the final assistant message
StoreAssistantMessage(c) ==
  /\ call[c].pc = "insFinal"
  /\ LET row == MessageRow(c, "final", "ASSISTANT", NoKey,
                           call[c].finalProviderCall)
     IN IF MessageUniqueViolation(row) # "none"
        THEN /\ Throw(c, UniqueConstraintError(MessageUniqueViolation(row)))
             /\ UNCHANGED messages
        ELSE /\ messages' = messages \cup {row}
             /\ UNCHANGED sessionLocks
             /\ call' = [call EXCEPT ![c].pc = "bill",
                                     ![c].assistantMessage = row]
  /\ UNCHANGED <<sessions, providerCalls, usageEvents, toolExecutions, bill,
                 jobVars>>

\* ------------------------------------------------------- createUsageEvent
UsageEventCount(p) == IF p \in DOMAIN usageEvents THEN usageEvents[p] ELSE 0

SkipsBilling_OnSuccess(demoMode, status) == demoMode \/ status = "SUCCESS"

SkipsBilling_DemoOnly(demoMode, status) == demoMode

SkipsBilling_FailuresOnly(demoMode, status) == status # "SUCCESS"

\* the two early returns of createUsageEvent
SkipsBilling(demoMode, status) == demoMode \/ status # "SUCCESS"

\* updateMany({where: {id, billed: false}, data: {billed: true}}): the number
\* of rows it changes, given the row's committed billed flag
UpdateManyCount(billed) == IF billed = FALSE THEN 1 ELSE 0

\* the unique index usage_events_providerCallId_key
UsageEventUniqueViolation(ue, p) == p \in DOMAIN ue /\ ue[p] > 0

usageEventCreate(ue, p) ==
  [q \in DOMAIN ue \cup {p} |->
     (IF q \in DOMAIN ue THEN ue[q] ELSE 0) + (IF q = p THEN 1 ELSE 0)]

InsertAndCommit_FlagOnly(pcs, ue, p) == <<[pcs EXCEPT ![p].billed = TRUE], ue>>

\* tx.usageEvent.create and the commit, after updateMany changed one row:
\* both writes take effect, or on P2002 the transaction rolls back and the
\* catch block swallows the error
InsertAndCommit(pcs, ue, p) ==
  IF UsageEventUniqueViolation(ue, p) THEN <<pcs, ue>>
  ELSE <<[pcs EXCEPT ![p].billed = TRUE], usageEventCreate(ue, p)>>

\* the committed effect of the whole transaction on the pair
\* <<provider_calls, usage_events>>
BillingTransaction(pcs, ue, p) ==
  IF UpdateManyCount(pcs[p].billed) = 0 THEN <<pcs, ue>>
  ELSE InsertAndCommit(pcs, ue, p)

\* createUsageEvent run alone from its first line to its return
createUsageEventAlone(pcs, ue, demoMode, p) ==
  IF SkipsBilling(demoMode, pcs[p].status) THEN <<pcs, ue>>
  ELSE BillingTransaction(pcs, ue, p)

\* createUsageEvent up to its first await: the demo and status checks are
\* made on the arguments
createUsageEvent(b, demoMode, p) ==
  /\ bill[b].st = "idle"
  /\ p \in DOMAIN providerCalls
  /\ bill' = [bill EXCEPT ![b] =
                [st |-> IF SkipsBilling(demoMode, providerCalls[p].status)
                        THEN "returned" ELSE "update",
                 providerCallId |-> p, count |-> 0]]
  /\ UNCHANGED <<sessionLocks, sessions, messages, providerCalls, usageEvents,
                 toolExecutions, call, jobVars>>

\* a transaction that has updated the provider_calls row holds its row lock
\* until it commits or rolls back
RowLocked(p) == \E b \in Billers : /\ bill[b].st = "insert"
                                   /\ bill[b].providerCallId = p

\* the transaction's first statement; with count 0 the callback returns and
\* the empty transaction commits
MarkBilled(b) ==
  /\ bill[b].st = "update"
  /\ ~RowLocked(bill[b].providerCallId)
  /\ LET n == UpdateManyCount(providerCalls[bill[b].providerCallId].billed)
     IN bill' = [bill EXCEPT ![b].count = n,
                             ![b].st = IF n = 0 THEN "returned" ELSE "insert"]
  /\ UNCHANGED <<sessionLocks, sessions, messages, providerCalls, usageEvents,
                 toolExecutions, call, jobVars>>

\* the catch block of createUsageEvent returns on P2002 and rethrows the rest
SwallowedByCatch(code) == code = "P2002"

\* tx.usageEvent.create and the commit; on P2002 the transaction rolls back
\* and the catch block decides
InsertUsageEvent(b) ==
  /\ bill[b].st = "insert"
  /\ LET after == InsertAndCommit(providerCalls, usageEvents,
                                  bill[b].providerCallId)
     IN /\ providerCalls' = after[1]
        /\ usageEvents' = after[2]
  /\ bill' = [bill EXCEPT ![b].st =
       IF UsageEventUniqueViolation(usageEvents, bill[b].providerCallId)
          /\ ~SwallowedByCatch("P2002")
       THEN "threw" ELSE "returned"]
  /\ UNCHANGED <<sessionLocks, sessions, messages, toolExecutions, call,
                 jobVars>>

\* Step 10 and the return: bill the initial provider call (if the tool loop
\* ran), then the final one, then return the formatted assistant message and
\* release the lock.  No other call is ever handed these ProviderCall rows,
\* so the two createUsageEvent runs are uncontended and are taken in one step.
BillAndReturn(c) ==
  /\ call[c].pc = "bill"
  /\ LET demo == sessions[call[c].sessionId].demoMode
         first == IF call[c].initialProviderCall # NoProviderCall
                  THEN createUsageEventAlone(providerCalls, usageEvents, demo,
                                             call[c].initialProviderCall)
                  ELSE <<providerCalls, usageEvents>>
         second == createUsageEventAlone(first[1], first[2], demo,
                                         call[c].finalProviderCall)
     IN /\ providerCalls' = second[1]
        /\ usageEvents' = second[2]
  /\ call' = [call EXCEPT ![c] =
       Finished(c, formatMessageResponse(call[c].assistantMessage))]
  /\ ReleaseLock(call[c].sessionId)
  /\ UNCHANGED <<sessions, messages, toolExecutions, bill, jobVars>>

\* --------------------------------------------------------------- sessions
\* endSession(tenantId, sessionId): tenant-scoped lookup, then status = ENDED
endSession(t, s) ==
  /\ SessionTenant(s) = t
  /\ sessions[s].status = "ACTIVE"
  /\ sessions' = [sessions EXCEPT ![s].status = "ENDED"]
  /\ UNCHANGED <<sessionLocks, messages, providerCalls, usageEvents,
                 toolExecutions, call, bill, jobVars>>

\* ------------------------------------------------ the message pipeline spec
MsgNext ==
  \/ \E c \in Calls, t \in Tenants, s \in Sessions, k \in KeyOpts :
       sendMessage(c, t, s, k)
  \/ \E c \in Calls : withSessionLock(c)
  \/ \E c \in Calls : getSessionWithAgent(c)
  \/ \E c \in Calls : getNextSequenceNumber(c)
  \/ \E c \in Calls : StoreUserMessage(c)
  \/ \E c \in Calls, o \in ProviderOutcomes : CallProvider(c, o)
  \/ \E c \in Calls : StoreInterimMessage(c)
  \/ \E c \in Calls : executeToolCalls(c)
  \/ \E c \in Calls : StoreToolMessage(c)
  \/ \E c \in Calls, o \in ProviderOutcomes : CallProviderWithToolResults(c, o)
  \/ \E c \in Calls : StoreAssistantMessage(c)
  \/ \E c \in Calls : BillAndReturn(c)
  \/ \E k \in LockKeys : LockTimeoutPasses(k)
  \/ LockCleanup
  \/ \E t \in Tenants, s \in Sessions : endSession(t, s)

Spec == Init /\ [][MsgNext]_vars

\* ------------------------------------------- createUsageEvent under contention
\* ProviderCall rows that call 1 has persisted and that await billing: the
\* ids of its initial and of its follow-up provider call
UnbilledProviderCalls == {<<1, 1>>, <<1, 2>>}

\* the state when invocations of createUsageEvent start: the ProviderCall
\* rows exist with billed = false (the schema default), no UsageEvent exists
BillInit ==
  /\ sessionLocks = [k \in LockKeys |-> "absent"]
  /\ sessions \in [Sessions -> [status : {"ACTIVE"}, demoMode : BOOLEAN]]
  /\ messages = {}
  /\ providerCalls \in
       [UnbilledProviderCalls ->
          {[sessionId |-> "S1", by |-> 1, billed |-> FALSE, status |-> st,
            isFallback |-> FALSE] :
             st \in {"SUCCESS"} \cup
                    {getProviderCallStatus(code) :
                       code \in {"PROVIDER_ERROR", "TIMEOUT", "RATE_LIMITED"}}}]
  /\ usageEvents = [p \in {} |-> 0]
  /\ toolExecutions = 0
  /\ call = [c \in Calls |-> IdleCall]
  /\ bill = [b \in Billers |-> IdleBill]
  /\ JobIdle
  /\ SideIdle
  /\ OrchIdle

\* invocations arrive for any of the rows, with the demo flag of the row's
\* session, and interleave at their awaits
BillNext ==
  \/ \E b \in Billers, p \in UnbilledProviderCalls :
       createUsageEvent(b, sessions[providerCalls[p].sessionId].demoMode, p)
  \/ \E b \in Billers : MarkBilled(b)
  \/ \E b \in Billers : InsertUsageEvent(b)

BillSpec == BillInit /\ [][BillNext]_vars

\* ----------------------------------------------------------- the job queue
\* jobs.maxAttempts, the column default and config.jobs.maxAttempts
maxAttempts == 3

\* a jobs row as the async route creates it; lockedBy 0 is NULL, expired
\* stands for lockExpiresAt < now and is FALSE while lockExpiresAt is NULL;
\* errorMessage and completedAt tell whether the column is set
NewJob(cb, k) ==
  [status |-> "PENDING", locked |-> FALSE, lockedBy |-> 0, expired |-> FALSE,
   attempts |-> 0, progress |-> 0, callbackUrl |-> cb, callbackSent |-> FALSE,
   idempotencyKey |-> k, output |-> NoRet, errorMessage |-> FALSE,
   completedAt |-> FALSE]

\* POST /sessions/:sessionId/messages/async by the session's tenant: a job
\* that already carries the key is returned instead of a new one
createJob(cb, k) ==
  /\ Cardinality(DOMAIN jobs) < MaxJobs
  /\ k = NoKey \/ \A j \in DOMAIN jobs : jobs[j].idempotencyKey # k
  /\ LET id == Cardinality(DOMAIN jobs) + 1
     IN jobs' = [j \in DOMAIN jobs \cup {id} |->
                   IF j = id THEN NewJob(cb, k) ELSE jobs[j]]
  /\ UNCHANGED <<msgVars, worker, callbacks, crashes>>

Unlocked(row) ==
  [row EXCEPT !.locked = FALSE, !.lockedBy = 0, !.expired = FALSE]

\* recoverStaleJobs: one updateMany
recoverStaleJobs(js) ==
  [j \in DOMAIN js |->
     IF js[j].status = "PROCESSING" /\ js[j].locked /\ js[j].expired
     THEN [Unlocked(js[j]) EXCEPT !.status = "PENDING"]
     ELSE js[j]]

\* JobWorker.start: recover stale jobs, then poll
start(w) ==
  /\ worker[w].pc = "stopped"
  /\ jobs' = recoverStaleJobs(jobs)
  /\ worker' = [worker EXCEPT ![w] = [pc |-> "poll", job |-> 0, attempts |-> 0]]
  /\ UNCHANGED <<msgVars, callbacks, crashes>>

\* the where clause of the claim's findFirst
Claimable(row) ==
  /\ row.status \in {"PENDING", "PROCESSING"}
  /\ ~row.locked \/ row.expired
  /\ row.attempts < maxAttempts

\* orderBy createdAt asc: job ids are given in creation order
FirstAvailable == Max({0 - j : j \in {i \in DOMAIN jobs : Claimable(jobs[i])}})

\* processNextJob, the transaction's findFirst; a plain read that takes no
\* row lock.  When no job matches, the poll ends and nothing changes.
findFirst(w) ==
  /\ worker[w].pc = "poll"
  /\ \E j \in DOMAIN jobs : Claimable(jobs[j])
  /\ worker' = [worker EXCEPT ![w].pc = "claim", ![w].job = 0 - FirstAvailable]
  /\ UNCHANGED <<msgVars, jobs, callbacks, crashes>>

\* processNextJob, the transaction's update and its commit: the row is
\* addressed by id alone; the worker keeps the row the update returned
claimUpdate(w) ==
  /\ worker[w].pc = "claim"
  /\ LET j == worker[w].job
     IN /\ jobs' = [jobs EXCEPT ![j].status = "PROCESSING",
                                ![j].locked = TRUE,
                                ![j].lockedBy = w,
                                ![j].expired = FALSE,
                                ![j].attempts = @ + 1]
        /\ worker' = [worker EXCEPT ![w].pc = "exec",
                                    ![w].attempts = jobs[j].attempts + 1]
  /\ UNCHANGED <<msgVars, callbacks, crashes>>

\* executeSendMessage up to the sendMessage call: progress = 50
executeSendMessage(w) ==
  /\ worker[w].pc = "exec"
  /\ jobs' = [jobs EXCEPT ![worker[w].job].progress = 50]
  /\ worker' = [worker EXCEPT ![w].pc = "run"]
  /\ UNCHANGED <<msgVars, callbacks, crashes>>

AfterJob(w, callback) ==
  worker' = [worker EXCEPT ![w].pc = IF callback THEN "callback" ELSE "poll"]

\* after the final failure the callback carries the error
AfterFailure(w, callback) ==
  worker' = [worker EXCEPT ![w].pc =
               IF callback THEN "failureCallback" ELSE "poll"]

\* the success update of processNextJob, result being what executeJob returned
CompleteWith(w, result) ==
  LET j == worker[w].job
  IN /\ jobs' = [jobs EXCEPT ![j] =
                   [Unlocked(@) EXCEPT !.status = "COMPLETED",
                                       !.progress = 100,
                                       !.output = result,
                                       !.completedAt = TRUE]]
     /\ AfterJob(w, jobs[j].callbackUrl)

\* some value returned by executeSendMessage
SomeOutput == [kind |-> "response"]

\* sendMessage returned
JobCompleted(w) ==
  /\ worker[w].pc = "run"
  /\ CompleteWith(w, SomeOutput)
  /\ UNCHANGED <<msgVars, callbacks, crashes>>

shouldRetry_OneMore(attempts) == attempts <= maxAttempts

\* the retry test of the catch block, on the row the claim returned
shouldRetry(attempts) == attempts < maxAttempts

\* the catch block of processNextJob
FailJob(w) ==
  LET j == worker[w].job
      retry == shouldRetry(worker[w].attempts)
  IN /\ jobs' = [jobs EXCEPT ![j] =
                   [Unlocked(@) EXCEPT
                      !.status = IF retry THEN "PENDING" ELSE "FAILED",
                      !.errorMessage = ~retry,
                      !.completedAt = ~retry]]
     /\ AfterFailure(w, ~retry /\ jobs[j].callbackUrl)

\* sendMessage threw
JobThrew(w) ==
  /\ worker[w].pc = "run"
  /\ FailJob(w)
  /\ UNCHANGED <<msgVars, callbacks, crashes>>

\* what the fetch of sendCallback can do
CallbackOutcomes == {"2xx", "non2xx", "networkError"}

\* the body of the POST: status is FAILED when an error is passed
CallbackPayload(j, failed) ==
  [jobId |-> j, status |-> IF failed THEN "FAILED" ELSE "COMPLETED"]

\* sendCallback: callbackSent is set unless fetch threw
sendCallback(w, r) ==
  /\ worker[w].pc \in {"callback", "failureCallback"}
  /\ LET j == worker[w].job
         payload == CallbackPayload(j, worker[w].pc = "failureCallback")
     IN IF r = "networkError"
        THEN UNCHANGED <<jobs, callbacks>>
        ELSE /\ callbacks' = [callbacks EXCEPT ![j] =
                                Append(@, [body |-> payload, response |-> r])]
             /\ jobs' = [jobs EXCEPT ![j].callbackSent = TRUE]
  /\ worker' = [worker EXCEPT ![w].pc = "poll"]
  /\ UNCHANGED <<msgVars, crashes>>

\* time passes beyond lockExpiresAt (config.jobs.lockDurationMs after the claim)
LeaseExpires(j) ==
  /\ j \in DOMAIN jobs
  /\ jobs[j].locked /\ ~jobs[j].expired
  /\ jobs' = [jobs EXCEPT ![j].expired = TRUE]
  /\ UNCHANGED <<msgVars, worker, callbacks, crashes>>

\* the worker's process dies: its memory is lost, an open transaction rolls
\* back, the rows it committed stay
WorkerCrash(w) ==
  /\ worker[w].pc # "stopped"
  /\ crashes < MaxCrashes
  /\ crashes' = crashes + 1
  /\ worker' = [worker EXCEPT ![w] = IdleWorker]
  /\ UNCHANGED <<msgVars, jobs, callbacks>>

WorkerStep(w) ==
  \/ start(w)
  \/ findFirst(w)
  \/ claimUpdate(w)
  \/ executeSendMessage(w)
  \/ JobCompleted(w)
  \/ JobThrew(w)
  \/ \E r \in CallbackOutcomes : sendCallback(w, r)

JobNext ==
  \/ \E cb \in BOOLEAN, k \in KeyOpts : createJob(cb, k)
  \/ \E w \in Workers : WorkerStep(w)
  \/ \E j \in Jobs : LeaseExpires(j)
  \/ \E w \in Workers : WorkerCrash(w)

JobSpec == Init /\ [][JobNext]_vars

\* a started worker polls every config.jobs.pollIntervalMs and a restarted
\* process starts its worker; the clock advances; crashes are not owed
JobLiveSpec ==
  /\ JobSpec
  /\ \A w \in Workers : WF_vars(WorkerStep(w))
  /\ \A j \in Jobs : WF_vars(LeaseExpires(j))

\* ------------------------------- SEND_MESSAGE jobs run by one server process
\* The process hosts one JobWorker, the session lock map and its cleanup
\* timer; every sendMessage invocation is made by executeSendMessage.
HostWorker == 1

RunInit ==
  /\ sessionLocks = [k \in LockKeys |-> "absent"]
  /\ sessions = [s \in Sessions |-> [status |-> "ACTIVE", demoMode |-> FALSE]]
  /\ messages = {}
  /\ providerCalls = [p \in {} |-> 0]
  /\ usageEvents = [p \in {} |-> 0]
  /\ toolExecutions = 0
  /\ call = [c \in Runs |-> IdleCall]
  /\ bill = [b \in Billers |-> IdleBill]
  /\ JobIdle
  /\ SideIdle
  /\ OrchIdle

\* the invocation the worker made last
CurrentRun == Max({c \in Runs : call[c].pc # "idle"})

\* executeSendMessage: sendMessage(job.tenantId, input.sessionId,
\* {content, idempotencyKey: job.idempotencyKey ?? undefined}) up to its
\* first await inside the lock
RunSendMessage(w, c) ==
  /\ worker[w].pc = "run"
  /\ c \in Runs
  /\ IdempotencyPreCheck(c, SessionTenant("S1"), "S1",
                         jobs[worker[w].job].idempotencyKey)
  /\ worker' = [worker EXCEPT ![w].pc = "await"]
  /\ UNCHANGED <<sessionLocks, sessions, messages, providerCalls, usageEvents,
                 toolExecutions, bill, jobs, callbacks, crashes, orch,
                 history, create, submit>>

\* what executeSendMessage returns
JobOutput(ret) ==
  [kind |-> "response", messageId |-> ret.id, content |-> ret.content,
   metadata |-> ret.metadata]

\* sendMessage returned to executeSendMessage
RunReturned(w) ==
  /\ worker[w].pc = "await"
  /\ Returned(CurrentRun)
  /\ CompleteWith(w, JobOutput(call[CurrentRun].ret))
  /\ UNCHANGED <<msgVars, callbacks, crashes>>

\* sendMessage threw
RunThrew(w) ==
  /\ worker[w].pc = "await"
  /\ Failed(CurrentRun)
  /\ FailJob(w)
  /\ UNCHANGED <<msgVars, callbacks, crashes>>

\* the process dies: the worker, the lock map and the invocation in flight
\* are lost, committed rows stay
ProcessCrash(w) ==
  /\ worker[w].pc # "stopped"
  /\ crashes < MaxCrashes
  /\ crashes' = crashes + 1
  /\ worker' = [worker EXCEPT ![w] = IdleWorker]
  /\ sessionLocks' = [k \in LockKeys |-> "absent"]
  /\ call' = [c \in Runs |->
                IF call[c].pc \in {"idle", "done"} THEN call[c]
                ELSE Finished(c, [kind |-> "lost"])]
  /\ UNCHANGED <<sessions, messages, providerCalls, usageEvents,
                 toolExecutions, bill, jobs, callbacks, orch, history,
                 create, submit>>

PipelineStep(c) ==
  \/ withSessionLock(c)
  \/ getSessionWithAgent(c)
  \/ getNextSequenceNumber(c)
  \/ StoreUserMessage(c)
  \/ \E o \in ProviderOutcomes : CallProvider(c, o)
  \/ StoreInterimMessage(c)
  \/ executeToolCalls(c)
  \/ StoreToolMessage(c)
  \/ \E o \in ProviderOutcomes : CallProviderWithToolResults(c, o)
  \/ StoreAssistantMessage(c)
  \/ BillAndReturn(c)

HostWorkerStep(w) ==
  \/ start(w)
  \/ findFirst(w)
  \/ claimUpdate(w)
  \/ executeSendMessage(w)
  \/ \E c \in Runs : RunSendMessage(w, c)
  \/ RunReturned(w)
  \/ RunThrew(w)
  \/ \E r \in CallbackOutcomes : sendCallback(w, r)

RunNext ==
  \/ \E cb \in BOOLEAN, k \in KeyOpts : createJob(cb, k)
  \/ HostWorkerStep(HostWorker)
  \/ \E c \in Runs : PipelineStep(c)
  \/ \E k \in LockKeys : LockTimeoutPasses(k)
  \/ LockCleanup
  \/ \E j \in Jobs : LeaseExpires(j)
  \/ ProcessCrash(HostWorker)

RunSpec == RunInit /\ [][RunNext]_vars

\* ------------------------------ the sequence generator without a common lock
\* Calls served by different server processes: each process has a lock map of
\* its own, so each call is inside its critical section, about to allocate
\* the number of its USER message.
InOwnProcess(c) == [IdleCall EXCEPT !.pc = "seqUser"]

SeqInit ==
  /\ sessionLocks = [k \in LockKeys |-> "absent"]
  /\ sessions = [s \in Sessions |-> [status |-> "ACTIVE", demoMode |-> FALSE]]
  /\ messages = {}
  /\ providerCalls = [p \in {} |-> 0]
  /\ usageEvents = [p \in {} |-> 0]
  /\ toolExecutions = 0
  /\ call = [c \in Calls |-> InOwnProcess(c)]
  /\ bill = [b \in Billers |-> IdleBill]
  /\ JobIdle
  /\ SideIdle
  /\ OrchIdle

SeqNext ==
  \/ \E c \in Calls : getNextSequenceNumber(c)
  \/ \E c \in Calls : StoreUserMessage(c)
  \/ \E c \in Calls, o \in ProviderOutcomes : CallProvider(c, o)
  \/ \E c \in Calls : StoreInterimMessage(c)
  \/ \E c \in Calls : executeToolCalls(c)
  \/ \E c \in Calls : StoreToolMessage(c)
  \/ \E c \in Calls, o \in ProviderOutcomes : CallProviderWithToolResults(c, o)
  \/ \E c \in Calls : StoreAssistantMessage(c)
  \/ \E c \in Calls : BillAndReturn(c)

SeqSpec == SeqInit /\ [][SeqNext]_vars

\* ------------------------------------------------ the provider orchestrator
\* config.retry.maxAttempts
retryMaxAttempts == 3

\* what one adapter.sendMessage call does: an answer, or the error it throws
AdapterErrors ==
  {"RateLimitError", "TimeoutError", "ProviderSchemaError", "ProviderError"}
AdapterOutcomes == {"text", "tools"} \cup AdapterErrors

isRetryableError_Always(e) == TRUE

\* ProviderError always carries statusCode 502
isRetryableError(e) == e \in {"RateLimitError", "TimeoutError", "ProviderError"}

\* isFallback of the result after every attempt failed, lastProvider being
\* the provider of the last error
AllFailedIsFallback(fallbackProvider, lastProvider) ==
  IF fallbackProvider # NoProvider THEN lastProvider = fallbackProvider
  ELSE FALSE

\* the code of the result after every attempt failed
AllFailedCode(lastError) ==
  IF lastError = "RateLimitError" THEN "RATE_LIMITED" ELSE "PROVIDER_ERROR"

\* the one message the orchestrator is followed for
OrchMessage == 1

\* executeWithResilience is entered: a fresh retryState, the primary first
executeWithResilience(c) ==
  /\ \/ call[c].pc = "provider" /\ orch.round = 0
     \/ call[c].pc = "provider2" /\ orch.round = 1 /\ orch.phase = "done"
  /\ orch' = [orch EXCEPT !.round = @ + 1, !.phase = "primary",
                          !.provider = primaryProvider, !.attempt = 0,
                          !.attemptNumber = 0, !.errors = <<>>,
                          !.result = "none", !.isFallback = FALSE]
  /\ UNCHANGED <<sessionLocks, sessions, messages, providerCalls, usageEvents,
                 toolExecutions, call, bill, jobs, worker, callbacks, crashes,
                 history, create, submit>>

\* one iteration of executeWithRetry's loop, and what executeWithResilience
\* does when the loop returns
executeWithRetry(r) ==
  /\ orch.phase \in {"primary", "fallback"}
  /\ orch.round = 2 => r # "tools"
  /\ LET attempt == orch.attempt + 1
         made == [orch EXCEPT !.attempt = attempt,
                              !.attemptNumber = @ + 1,
                              !.adapterCalls = @ + 1]
     IN orch' =
          IF r \notin AdapterErrors
          THEN [made EXCEPT !.phase = "done", !.result = r,
                            !.isFallback = (orch.phase = "fallback")]
          ELSE LET threw == [made EXCEPT !.errors =
                               Append(@, [provider |-> orch.provider,
                                          error |-> r])]
               IN IF isRetryableError(r) /\ attempt < retryMaxAttempts
                  THEN [threw EXCEPT !.sleeps = @ + 1]
                  ELSE IF /\ orch.phase = "primary"
                          /\ orch.fallbackProvider # NoProvider
                          /\ orch.fallbackProvider # primaryProvider
                  THEN [threw EXCEPT !.phase = "fallback",
                                     !.provider = orch.fallbackProvider,
                                     !.attempt = 0]
                  ELSE [threw EXCEPT !.phase = "done",
                                     !.result = AllFailedCode(r),
                                     !.isFallback = AllFailedIsFallback(
                                       orch.fallbackProvider, orch.provider)]
  /\ UNCHANGED <<sessionLocks, sessions, messages, providerCalls, usageEvents,
                 toolExecutions, call, bill, jobs, worker, callbacks, crashes,
                 history, create, submit>>

\* the orchestrator returned to sendMessage
OrchReturned(round) == orch.round = round /\ orch.phase = "done"

OrchInit ==
  /\ MsgInit
  /\ JobIdle
  /\ SideIdle
  /\ orch \in {[IdleOrch EXCEPT !.fallbackProvider = f] : f \in FallbackOpts}

OrchNext ==
  \/ \E k \in KeyOpts :
       sendMessage(OrchMessage, SessionTenant("S1"), "S1", k)
  \/ withSessionLock(OrchMessage)
  \/ getSessionWithAgent(OrchMessage)
  \/ getNextSequenceNumber(OrchMessage)
  \/ StoreUserMessage(OrchMessage)
  \/ executeWithResilience(OrchMessage)
  \/ \E r \in AdapterOutcomes : executeWithRetry(r)
  \/ OrchReturned(1) /\ CallProvider(OrchMessage, orch.result)
  \/ StoreInterimMessage(OrchMessage)
  \/ executeToolCalls(OrchMessage)
  \/ StoreToolMessage(OrchMessage)
  \/ OrchReturned(2) /\ CallProviderWithToolResults(OrchMessage, orch.result)
  \/ StoreAssistantMessage(OrchMessage)
  \/ BillAndReturn(OrchMessage)

OrchSpec == OrchInit /\ [][OrchNext]_vars

\* ------------------------------------------------- the conversation history
\* config.session.maxHistoryMessages
maxHistoryMessages == 50

\* the messages a session can hold before the message that is followed
MaxStored == 52

\* msg.role.toLowerCase()
toLowerCase(role) ==
  CASE role = "USER" -> "user"
    [] role = "ASSISTANT" -> "assistant"
    [] role = "TOOL" -> "tool"
    [] OTHER -> "system"

\* one entry of the history: role and content, the parsed tool calls of an
\* ASSISTANT row, the parsed tool result of a TOOL row
ConversationMessage(msg) ==
  [role |-> toLowerCase(msg.role), content |-> msg.content,
   toolCalls |-> (msg.role = "ASSISTANT" /\ msg.toolCalls),
   toolResults |-> (msg.role = "TOOL")]

\* findMany({where: {sessionId}, orderBy: {sequenceNumber: 'asc'}, take: n}):
\* the rows in ascending order, cut after the first n
findManyAscTake(s, n) ==
  LET ms == SessionMessages(s)
      position(m) ==
        Cardinality({x \in ms : x.sequenceNumber < m.sequenceNumber}) + 1
      taken == {m \in ms : position(m) <= n}
  IN [i \in 1..Cardinality(taken) |->
        CHOOSE m \in taken : position(m) = i]

loadConversationHistory(s) ==
  LET rows == findManyAscTake(s, maxHistoryMessages)
  IN [i \in 1..Len(rows) |-> ConversationMessage(rows[i])]

\* the message that is followed, and the turns the session already holds:
\* USER and ASSISTANT rows of earlier messages, numbered from 1
HistMessage == 1
StoredRow(i) ==
  [id |-> <<0, i>>, sessionId |-> "S1", sequenceNumber |-> i,
   idempotencyKey |-> NoKey,
   role |-> IF i % 2 = 1 THEN "USER" ELSE "ASSISTANT",
   content |-> <<0, i>>, toolCalls |-> FALSE,
   providerCallId |-> IF i % 2 = 1 THEN NoProviderCall ELSE <<0, i>>]

HistInit ==
  /\ sessionLocks = [k \in LockKeys |-> "absent"]
  /\ sessions = [s \in Sessions |-> [status |-> "ACTIVE", demoMode |-> FALSE]]
  /\ \E n \in 0..MaxStored : messages = {StoredRow(i) : i \in 1..n}
  /\ providerCalls = [p \in {} |-> 0]
  /\ usageEvents = [p \in {} |-> 0]
  /\ toolExecutions = 0
  /\ call = [c \in Calls |-> IdleCall]
  /\ bill = [b \in Billers |-> IdleBill]
  /\ JobIdle
  /\ OrchIdle
  /\ SideIdle

\* "Rebuild history from DB with tool results included": the load before the
\* follow-up provider call
RebuildHistory(c) ==
  /\ call[c].pc = "provider2"
  /\ ~history.loaded
  /\ history' = [loaded |-> TRUE,
                 messages |-> loadConversationHistory(call[c].sessionId)]
  /\ UNCHANGED <<sessionLocks, sessions, messages, providerCalls, usageEvents,
                 toolExecutions, call, bill, jobs, worker, callbacks, crashes,
                 orch, create, submit>>

HistNext ==
  \/ \E k \in KeyOpts :
       sendMessage(HistMessage, SessionTenant("S1"), "S1", k)
  \/ withSessionLock(HistMessage)
  \/ getSessionWithAgent(HistMessage)
  \/ getNextSequenceNumber(HistMessage)
  \/ StoreUserMessage(HistMessage)
  \/ \E o \in ProviderOutcomes : CallProvider(HistMessage, o)
  \/ StoreInterimMessage(HistMessage)
  \/ executeToolCalls(HistMessage)
  \/ StoreToolMessage(HistMessage)
  \/ RebuildHistory(HistMessage)
  \/ \E o \in ProviderOutcomes :
       history.loaded /\ CallProviderWithToolResults(HistMessage, o)
  \/ StoreAssistantMessage(HistMessage)
  \/ BillAndReturn(HistMessage)

HistSpec == HistInit /\ [][HistNext]_vars

\* ------------------------------------------------------------ createSession
\* one tenant and one agent; the customers and the demo flag vary
Customers == {"cust-1", "cust-2"}

\* findFirst({tenantId, agentId, customerId, status: 'ACTIVE', demoMode})
ActiveSessions(cu, demoModes) ==
  {s \in DOMAIN sessions : /\ sessions[s].status = "ACTIVE"
                           /\ sessions[s].customerId = cu
                           /\ sessions[s].demoMode \in demoModes}

SessionUniqueViolation_NoIndex(cu) == FALSE

\* one_active_session_per_customer_agent: unique on (tenantId, agentId,
\* customerId) WHERE status = 'ACTIVE'
SessionUniqueViolation(cu) == ActiveSessions(cu, BOOLEAN) # {}

\* createSession up to its first result: the lookup of an ACTIVE session
\* of the tuple, returned unchanged if there is one
createSession(cr, cu, d) ==
  /\ create[cr].pc = "idle"
  /\ LET found == ActiveSessions(cu, {d})
     IN create' = [create EXCEPT ![cr] =
          IF found # {}
          THEN [pc |-> "done", customerId |-> cu, demoMode |-> d,
                caught |-> FALSE,
                ret |-> [kind |-> "session", id |-> CHOOSE s \in found : TRUE]]
          ELSE [pc |-> "create", customerId |-> cu, demoMode |-> d,
                caught |-> FALSE, ret |-> NoRet]]
  /\ UNCHANGED <<msgVars_NoCreate, jobs, worker, callbacks, crashes>>

\* prisma.session.create: the insert, or P2002 from the partial unique index
sessionCreate(cr) ==
  /\ create[cr].pc = "create"
  /\ IF SessionUniqueViolation(create[cr].customerId)
     THEN /\ create' = [create EXCEPT ![cr].pc = "refetch",
                                      ![cr].caught = TRUE]
          /\ UNCHANGED sessions
     ELSE /\ sessions' = [s \in DOMAIN sessions \cup {cr} |->
                            IF s = cr
                            THEN [status |-> "ACTIVE",
                                  customerId |-> create[cr].customerId,
                                  demoMode |-> create[cr].demoMode]
                            ELSE sessions[s]]
          /\ create' = [create EXCEPT ![cr].pc = "done",
                          ![cr].ret = [kind |-> "session", id |-> cr]]
  /\ UNCHANGED <<sessionLocks, messages, providerCalls, usageEvents,
                 toolExecutions, call, bill, orch, history, jobs, worker,
                 callbacks, crashes, submit>>

\* the catch block: on P2002 look the ACTIVE session up again (any demoMode);
\* rethrow if there is none any more
RefetchAfterRace(cr) ==
  /\ create[cr].pc = "refetch"
  /\ LET found == ActiveSessions(create[cr].customerId, BOOLEAN)
     IN create' = [create EXCEPT ![cr].pc = "done", ![cr].ret =
          IF found # {}
          THEN [kind |-> "session", id |-> CHOOSE s \in found : TRUE]
          ELSE UniqueConstraintError("sessions")]
  /\ UNCHANGED <<msgVars_NoCreate, jobs, worker, callbacks, crashes>>

\* endSession on a created session
EndCreated(s) ==
  /\ s \in DOMAIN sessions
  /\ endSession(SessionTenant(s), s)

CreateInit ==
  /\ sessionLocks = [k \in LockKeys |-> "absent"]
  /\ sessions = [s \in {} |-> 0]
  /\ messages = {}
  /\ providerCalls = [p \in {} |-> 0]
  /\ usageEvents = [p \in {} |-> 0]
  /\ toolExecutions = 0
  /\ call = [c \in Calls |-> IdleCall]
  /\ bill = [b \in Billers |-> IdleBill]
  /\ JobIdle
  /\ OrchIdle
  /\ SideIdle

CreateNext ==
  \/ \E cr \in Creators, cu \in Customers, d \in BOOLEAN :
       createSession(cr, cu, d)
  \/ \E cr \in Creators : sessionCreate(cr)
  \/ \E cr \in Creators : RefetchAfterRace(cr)
  \/ \E s \in Creators : EndCreated(s)

CreateSpec == CreateInit /\ [][CreateNext]_vars

\* ------------------------------------------- POST /sessions/:id/messages/async
\* prisma.job.findUnique({tenantId_idempotencyKey})
JobsWithKey(k) == {j \in DOMAIN jobs : jobs[j].idempotencyKey = k}

\* the unique index jobs_tenantId_idempotencyKey_key (NULL keys never clash)
JobUniqueViolation(k) == k # NoKey /\ JobsWithKey(k) # {}

\* what the route answers: the job's id with 200 (existing) or 202 (created)
JobResponse(j, http) == [kind |-> "job", jobId |-> j, http |-> http]

\* the route up to its answer or to prisma.job.create: with a key, the
\* lookup of the tenant's job carrying it
submitAsync(sb, cb, k) ==
  /\ submit[sb].pc = "idle"
  /\ \A d \in Submitters : d < sb => submit[d].pc # "idle"
  /\ submit' = [submit EXCEPT ![sb] =
       IF k # NoKey /\ JobsWithKey(k) # {}
       THEN [pc |-> "done", callbackUrl |-> cb, idempotencyKey |-> k,
             ret |-> JobResponse(CHOOSE j \in JobsWithKey(k) : TRUE, 200)]
       ELSE [pc |-> "create", callbackUrl |-> cb, idempotencyKey |-> k,
             ret |-> NoRet]]
  /\ UNCHANGED <<sessionLocks, sessions, messages, providerCalls, usageEvents,
                 toolExecutions, call, bill, orch, history, create, jobs,
                 worker, callbacks, crashes>>

\* prisma.job.create: the insert, or P2002 from the unique index, which the
\* route does not catch
jobCreate(sb) ==
  /\ submit[sb].pc = "create"
  /\ LET id == Cardinality(DOMAIN jobs) + 1
     IN IF JobUniqueViolation(submit[sb].idempotencyKey)
        THEN /\ submit' = [submit EXCEPT ![sb].pc = "done",
                             ![sb].ret = UniqueConstraintError("jobs")]
             /\ UNCHANGED jobs
        ELSE /\ jobs' = [j \in DOMAIN jobs \cup {id} |->
                          IF j = id
                          THEN NewJob(submit[sb].callbackUrl,
                                      submit[sb].idempotencyKey)
                          ELSE jobs[j]]
             /\ submit' = [submit EXCEPT ![sb].pc = "done",
                             ![sb].ret = JobResponse(id, 202)]
  /\ UNCHANGED <<sessionLocks, sessions, messages, providerCalls, usageEvents,
                 toolExecutions, call, bill, orch, history, create, worker,
                 callbacks, crashes>>

SubmitNext ==
  \/ \E sb \in Submitters, cb \in BOOLEAN, k \in KeyOpts :
       submitAsync(sb, cb, k)
  \/ \E sb \in Submitters : jobCreate(sb)

SubmitSpec == Init /\ [][SubmitNext]_vars

\* ------------------------------------------------- any tool call dispatched
\* messages whose provider response may name any tool, for an agent with any
\* enabledTools
ToolNext ==
  \/ \E c \in Calls, k \in KeyOpts : sendMessage(c, SessionTenant("S1"), "S1", k)
  \/ \E c \in Calls : withSessionLock(c)
  \/ \E c \in Calls : getSessionWithAgent(c)
  \/ \E c \in Calls : getNextSequenceNumber(c)
  \/ \E c \in Calls : StoreUserMessage(c)
  \/ \E c \in Calls, o \in ProviderOutcomes : CallProvider(c, o)
  \/ \E c \in Calls : StoreInterimMessage(c)
  \/ \E c \in Calls, n \in ToolNames, e \in EnabledToolsOpts,
        outcome \in ToolOutcomes : ExecuteToolCall(c, n, e, outcome)
  \/ \E c \in Calls : StoreToolMessage(c)
  \/ \E c \in Calls, o \in ProviderOutcomes : CallProviderWithToolResults(c, o)
  \/ \E c \in Calls : StoreAssistantMessage(c)
  \/ \E c \in Calls : BillAndReturn(c)

ToolSpec == Init /\ [][ToolNext]_vars

\* --------------------------------------- parallel requests to one session
\* test-concurrent.sh: five POSTs to one fresh session, each with an
\* X-Idempotency-Key of its own, all in flight at once
MaxRequests == 5
Requests == 1..MaxRequests
RequestKey(c) == "concurrent-test-" \o ToString(c)

\* a request whose Step-1 lookup found nothing (the session is fresh) and
\* whose next step is withSessionLock
InFlight(c) ==
  [IdleCall EXCEPT !.pc = "lock", !.idempotencyKey = RequestKey(c)]

ParInit ==
  /\ sessionLocks = [k \in LockKeys |-> "absent"]
  /\ sessions = [s \in Sessions |-> [status |-> "ACTIVE", demoMode |-> FALSE]]
  /\ messages = {}
  /\ providerCalls = [p \in {} |-> 0]
  /\ usageEvents = [p \in {} |-> 0]
  /\ toolExecutions = 0
  /\ call = [c \in Requests |-> InFlight(c)]
  /\ bill = [b \in Billers |-> IdleBill]
  /\ JobIdle
  /\ SideIdle
  /\ OrchIdle

ParNext == \E c \in Requests : PipelineStep(c)

ParSpec == ParInit /\ [][ParNext]_vars

\* ------------------------------------------------------------- properties
CriticalPcs == {"load", "seqUser", "insUser", "provider", "seqInterim",
                "insInterim", "tools", "seqTool", "insTool", "provider2",
                "seqFinal", "insFinal", "bill"}

\* the calls that are inside fn of withSessionLock for session s
InCriticalSection(s) ==
  {c \in Calls : call[c].pc \in CriticalPcs /\ call[c].sessionId = s}


\* C1: for every session, at most one sendMessage call is inside the critical
\* section at any moment, however long the holder has been running.
C1_MutualExclusion ==
  \A s \in Sessions : Cardinality(InCriticalSection(s)) <= 1

\* the invocations of createUsageEvent made for ProviderCall p
Invocations(p) ==
  {b \in Billers : bill[b].st # "idle" /\ bill[b].providerCallId = p}

\* C2: for a SUCCESS ProviderCall of a non-demo session there is never more
\* than one UsageEvent, there is exactly one as soon as any invocation for it
\* has returned, and no invocation ends by throwing.
C2_ExactlyOneUsageEvent ==
  \A p \in DOMAIN providerCalls :
    ( /\ providerCalls[p].status = "SUCCESS"
      /\ ~sessions[providerCalls[p].sessionId].demoMode )
    => /\ UsageEventCount(p) <= 1
       /\ (\E b \in Invocations(p) : bill[b].st = "returned")
            => UsageEventCount(p) = 1
       /\ \A b \in Invocations(p) : bill[b].st # "threw"

\* three invocations for one SUCCESS ProviderCall of a non-demo session have
\* all returned: one changed the row, the others found it billed
C2_Witness ==
  \E p \in DOMAIN providerCalls :
    /\ providerCalls[p].status = "SUCCESS"
    /\ ~sessions[providerCalls[p].sessionId].demoMode
    /\ Cardinality(Invocations(p)) = MaxInvocations
    /\ \A b \in Invocations(p) : bill[b].st = "returned"
    /\ \E b \in Invocations(p) : bill[b].count = 1
    /\ \E b \in Invocations(p) : bill[b].count = 0
    /\ UsageEventCount(p) = 1

\* C3: the sequence numbers of a session's messages are exactly 1..n, n the
\* number of its messages, also after calls that failed part-way.
C3_SequenceContiguous ==
  \A s \in Sessions :
    {m.sequenceNumber : m \in SessionMessages(s)}
      = 1..Cardinality(SessionMessages(s))

\* a call failed after persisting rows, another one ran concurrently with it,
\* and the transcript holds several messages
C3_Witness ==
  /\ \E c \in Calls : Failed(c) /\ \E m \in messages : m.id[1] = c
  /\ \E c, d \in Calls : c # d /\ \E m, n \in messages :
        /\ m.id[1] = c /\ n.id[1] = d
        /\ m.id[2] = "user" /\ n.id[2] = "user"
  /\ Cardinality(messages) >= 4

\* C4: when a call with idempotency key K has returned assistant message A,
\* every call that arrives later on that session with key K returns a response
\* with the id, content and metadata of A.
C4_RepeatReturnsSameResponse ==
  [][\A c, d \in Calls :
       ( /\ c # d
         /\ Returned(c)
         /\ call[c].idempotencyKey # NoKey
         /\ call[d].pc = "idle" /\ call'[d].pc # "idle"
         /\ call'[d].sessionId = call[c].sessionId
         /\ call'[d].idempotencyKey = call[c].idempotencyKey )
       => /\ call'[d].pc = "done"
          /\ call'[d].ret.kind = "response"
          /\ call'[d].ret.id = call[c].ret.id
          /\ call'[d].ret.content = call[c].ret.content
          /\ call'[d].ret.metadata = call[c].ret.metadata]_vars

\* C5: a call whose idempotency key already had a USER message when the call
\* arrived never holds the session lock (and so reaches no provider call, no
\* billing and no insert).
C5_KeyHitTakesNoLock ==
  \A c \in Calls : call[c].userFound => call[c].pc \notin CriticalPcs

\* C6: no call made as a tenant that does not own the session returns the
\* session's messages.
C6_TenantIsolation ==
  \A c \in Calls :
    Returned(c) => SessionTenant(call[c].ret.sessionId) = call[c].tenantId

\* C7: a worker's claim never succeeds on a job that another worker's claim
\* holds under an unexpired lease.
C7_ClaimOnlyUnleased ==
  [][\A w \in Workers :
       (worker[w].pc = "claim" /\ worker'[w].pc = "exec")
       => ~jobs[worker[w].job].locked \/ jobs[worker[w].job].expired]_vars

\* C8: every submitted job eventually is COMPLETED or FAILED.
C8_EveryJobEnds ==
  \A j \in Jobs :
    (j \in DOMAIN jobs)
      ~> (j \in DOMAIN jobs /\ jobs[j].status \in {"COMPLETED", "FAILED"})

\* the job executions whose pipeline run left a UsageEvent
BilledRuns ==
  {c \in Runs : \E p \in DOMAIN providerCalls :
                  providerCalls[p].by = c /\ UsageEventCount(p) > 0}

\* C11: however often the one SEND_MESSAGE job is executed, the UsageEvents
\* come from a single pipeline run.
C11_JobBilledForOneRun ==
  Cardinality(DOMAIN jobs) = 1 => Cardinality(BilledRuns) <= 1

FailedProviderCalls ==
  {p \in DOMAIN providerCalls : providerCalls[p].status # "SUCCESS"}

\* C12: with no crash, the one job ends FAILED only if the provider failed
\* in each of its maxAttempts attempts; a provider failure in fewer attempts
\* does not keep the job from completing.
C12_FailsOnlyOnProviderFailures ==
  \A j \in DOMAIN jobs :
    (Cardinality(DOMAIN jobs) = 1 /\ crashes = 0 /\ jobs[j].status = "FAILED")
    => Cardinality(FailedProviderCalls) >= maxAttempts

\* the calls that hold a number from getNextSequenceNumber and have not yet
\* inserted their message
Allocated ==
  {c \in Calls : call[c].pc \in {"insUser", "insInterim", "insTool", "insFinal"}}

\* C13: calls that allocate and insert without a common lock hold pairwise
\* distinct numbers, and no insert fails on the (sessionId, sequenceNumber)
\* index.
C13_DistinctNumbersAllocated ==
  /\ \A c, d \in Allocated :
       (c # d /\ call[c].sessionId = call[d].sessionId)
       => call[c].seq # call[d].seq
  /\ \A c \in Calls :
       ~(Failed(c) /\ call[c].ret.code = "P2002"
                   /\ call[c].ret.target = "sequenceNumber")

\* C14: whenever a session's lock is held, a call that has not finished is
\* inside the critical section for that session: no call that returned or
\* threw, from whatever step, leaves the lock behind.
C14_NoLockWithoutHolder ==
  \A s \in Sessions :
    LockIsHeld(uuidToLockKey(s)) => InCriticalSection(s) # {}

\* calls have left the critical section by a missing session, an ended
\* session, a provider failure or a database error, another one with a
\* response, and the lock is free
C14_Witness ==
  /\ \E c \in Calls : Failed(c) /\ call[c].ret.code \in
                        {"NOT_FOUND", "VALIDATION_ERROR", "P2002"}
  /\ \E c \in Calls : Returned(c) /\ \E m \in messages : m.id = <<c, "final">>
  /\ \A s \in Sessions : ~LockIsHeld(uuidToLockKey(s))

\* the calls during which the orchestrator reported a failure
ProviderFailedFor(c) ==
  \E p \in DOMAIN providerCalls :
    providerCalls[p].by = c /\ providerCalls[p].status # "SUCCESS"

\* C15: a call whose first or follow-up provider call failed ends with error
\* code PROVIDER_ERROR, HTTP status 502.
C15_ProviderFailureIsProviderError ==
  \A c \in Calls :
    (call[c].pc = "done" /\ ProviderFailedFor(c))
    => /\ Failed(c)
       /\ call[c].ret.code = "PROVIDER_ERROR"
       /\ statusCode(call[c].ret.code) = 502

\* the message rows call c has inserted, by kind
MessageOf(c, kind) == {m \in messages : m.id = <<c, kind>>}

\* the ProviderCall row call c persisted in the given round is a failure
FailedRound(c, round) ==
  /\ <<c, round>> \in DOMAIN providerCalls
  /\ providerCalls[<<c, round>>].status # "SUCCESS"

ProviderCallsOf(c) == {p \in DOMAIN providerCalls : providerCalls[p].by = c}

\* C17: when a message has been served, it has left one ProviderCall row for
\* every adapter attempt the orchestrator made for it
C17_RowPerAttempt ==
  call[OrchMessage].pc = "done"
  => Cardinality(ProviderCallsOf(OrchMessage)) = orch.adapterCalls

\* C18: the adapter attempts made for one message, tool-call loop included,
\* number at most 2 x MAX_ATTEMPTS
C18_AttemptsBounded == orch.adapterCalls <= 2 * retryMaxAttempts

\* C19: when the parallel requests have all been answered, and every
\* provider call succeeded without tool calls, exactly one request got the
\* assistant's response, the others got CONFLICT (409), none got a 500, and
\* the session holds the sequence numbers {1, 2}
AllAnswered == \A c \in Requests : call[c].pc = "done"
ProvidersAnsweredText ==
  /\ \A p \in DOMAIN providerCalls : providerCalls[p].status = "SUCCESS"
  /\ toolExecutions = 0
C19_OneWinnerRestConflict ==
  (AllAnswered /\ ProvidersAnsweredText)
  => /\ Cardinality({c \in Requests : Returned(c)}) = 1
     /\ \A c \in Requests :
          ~Returned(c) => /\ Failed(c)
                          /\ call[c].ret.code = "CONFLICT"
                          /\ statusCode(call[c].ret.code) = 409
     /\ {m.sequenceNumber : m \in SessionMessages("S1")} = {1, 2}

\* C20: a message served alone on a fresh session whose first provider
\* response carried a tool call, once it has returned, has appended exactly
\* four messages numbered consecutively (USER, ASSISTANT with the toolCalls,
\* TOOL, final ASSISTANT) and has left 2 ProviderCall rows with status
\* SUCCESS, one UsageEvent for each of them and 1 ToolExecution row
RanToolLoop(c) == Returned(c) /\ MessageOf(c, "interim") # {}
MostRecent(s, n) ==
  {m \in SessionMessages(s) :
     Cardinality({x \in SessionMessages(s) :
                    x.sequenceNumber > m.sequenceNumber}) < n}

\* C21: the history rebuilt for the follow-up request holds the
\* maxHistoryMessages most recent messages of the session in ascending
\* order, so it contains the TOOL message just persisted
C21_HistoryIsMostRecent ==
  (history.loaded /\ call[HistMessage].pc = "provider2")
  => LET h == history.messages
         recent == MostRecent("S1", maxHistoryMessages)
     IN /\ {h[i].content : i \in 1..Len(h)} = {m.content : m \in recent}
        /\ \A i, j \in 1..Len(h) :
             i < j => \E m, n \in recent :
                        /\ m.content = h[i].content
                        /\ n.content = h[j].content
                        /\ m.sequenceNumber < n.sequenceNumber
        /\ \E i \in 1..Len(h) : h[i].content = <<HistMessage, "tool">>

\* the providers whose path the run has left on a non-retryable error
AbortedProviders ==
  {orch.errors[i].provider : i \in {j \in 1..Len(orch.errors) :
                                     ~isRetryableError(orch.errors[j].error)}}

\* an adapter attempt has just been made
AttemptMade == orch'.adapterCalls = orch.adapterCalls + 1
AttemptThrew(e) ==
  /\ AttemptMade
  /\ Len(orch'.errors) = Len(orch.errors) + 1
  /\ orch'.errors[Len(orch'.errors)].error = e

\* C22: an attempt that fails with a non-retryable error is followed by no
\* backoff sleep and by no further attempt against the same provider in that
\* orchestrator call
C22_NonRetryableAbortsPath ==
  [][/\ AttemptMade => orch.provider \notin AbortedProviders
     /\ AttemptThrew("ProviderSchemaError")
        => /\ orch'.sleeps = orch.sleeps
           /\ orch'.phase = "done" \/ orch'.provider # orch.provider]_vars

C22_Witness ==
  /\ orch.phase = "done"
  /\ Len(orch.errors) = 2
  /\ orch.errors[1] = [provider |-> "VENDOR_A", error |-> "ProviderSchemaError"]
  /\ orch.errors[2] = [provider |-> "VENDOR_B", error |-> "ProviderSchemaError"]
  /\ orch.adapterCalls = 2
  /\ orch.sleeps = 0

\* C23: at every instant at most one ACTIVE session exists per
\* (tenant, agent, customerId, demoMode), concurrent createSession calls
\* for the same tuple included
C23_OneActiveSessionPerTuple ==
  \A cu \in Customers, d \in BOOLEAN :
    Cardinality(ActiveSessions(cu, {d})) <= 1

C23_Witness ==
  \E a, b \in Creators :
    /\ a # b
    /\ create[a].pc = "done" /\ create[b].pc = "done"
    /\ create[a].customerId = create[b].customerId
    /\ create[a].demoMode = create[b].demoMode
    /\ create[a].ret = [kind |-> "session", id |-> a]
    /\ create[b].ret = [kind |-> "session", id |-> a]
    /\ create[b].caught
    /\ b \notin DOMAIN sessions
    /\ sessions[a].status = "ACTIVE"

\* C24: a ProviderCall is billed only if its status is SUCCESS, and no
\* UsageEvent references a ProviderCall that is FAILED, TIMEOUT or
\* RATE_LIMITED
C24_OnlySuccessBilled ==
  \A p \in DOMAIN providerCalls :
    /\ providerCalls[p].billed => providerCalls[p].status = "SUCCESS"
    /\ providerCalls[p].status \in {"FAILED", "TIMEOUT", "RATE_LIMITED"}
         => UsageEventCount(p) = 0

\* createUsageEvent has returned for a failed call of a non-demo session
\* while another call of the session got billed
C24_Witness ==
  \E p, q \in DOMAIN providerCalls :
    /\ providerCalls[p].status = "FAILED"
    /\ ~sessions[providerCalls[p].sessionId].demoMode
    /\ \E b \in Invocations(p) : bill[b].st = "returned"
    /\ ~providerCalls[p].billed
    /\ providerCalls[q].billed /\ UsageEventCount(q) = 1

\* C25: for a session in demo mode no UsageEvent is created and no
\* ProviderCall is marked billed
C25_DemoNeverBilled ==
  \A p \in DOMAIN providerCalls :
    sessions[providerCalls[p].sessionId].demoMode
    => ~providerCalls[p].billed /\ UsageEventCount(p) = 0

\* createUsageEvent has returned for every SUCCESS call of a demo session
C25_Witness ==
  /\ \A p \in DOMAIN providerCalls :
       /\ sessions[providerCalls[p].sessionId].demoMode
       /\ providerCalls[p].status = "SUCCESS"
       /\ \E b \in Invocations(p) : bill[b].st = "returned"
  /\ usageEvents = [p \in {} |-> 0]

\* C26: a job with a callbackUrl that has ended COMPLETED, whose callback
\* the worker recorded as sent, with no worker process lost: its endpoint
\* has received exactly one POST, carrying the jobId and status COMPLETED
C26_ExactlyOneCallback ==
  \A j \in DOMAIN jobs :
    ( /\ jobs[j].status = "COMPLETED"
      /\ jobs[j].callbackUrl
      /\ jobs[j].callbackSent
      /\ crashes = 0 )
    => /\ Len(callbacks[j]) = 1
       /\ callbacks[j][1].body = [jobId |-> j, status |-> "COMPLETED"]

\* C27: callbackSent is true only if a POST for the job was answered with a
\* 2xx status
C27_CallbackSentOnly2xx ==
  \A j \in DOMAIN jobs :
    jobs[j].callbackSent
    => \E i \in 1..Len(callbacks[j]) : callbacks[j][i].response = "2xx"

\* C28: two async submissions with the same idempotency key, sequential or
\* concurrent, leave exactly one job row with the key, both return that
\* job's id, and neither fails
C28_DuplicateSubmissionReturnsJob ==
  \A a, b \in Submitters :
    ( /\ a # b
      /\ submit[a].pc = "done" /\ submit[b].pc = "done"
      /\ submit[a].idempotencyKey # NoKey
      /\ submit[a].idempotencyKey = submit[b].idempotencyKey )
    => /\ Cardinality(JobsWithKey(submit[a].idempotencyKey)) = 1
       /\ submit[a].ret.kind = "job" /\ submit[b].ret.kind = "job"
       /\ submit[a].ret.jobId = submit[b].ret.jobId

\* worker w's execution of its job has just thrown and the catch block ran
CatchBlockRan(w) ==
  /\ worker[w].pc = "run"
  /\ worker'[w].pc \in {"poll", "failureCallback"}
  /\ jobs'[worker[w].job].status # "COMPLETED"

\* C29: when a job's execution throws, the worker sets the job PENDING with
\* its lock fields cleared if the attempts the claim left are below
\* maxAttempts, and otherwise FAILED with errorMessage and completedAt; the
\* failure of the attempt numbered maxAttempts ends the job FAILED
C29_RetryBelowMaxAttempts ==
  [][\A w \in Workers :
       CatchBlockRan(w)
       => LET after == jobs'[worker[w].job]
          IN /\ ~after.locked /\ after.lockedBy = 0 /\ ~after.expired
             /\ IF worker[w].attempts < maxAttempts
                THEN /\ after.status = "PENDING"
                     /\ ~after.errorMessage /\ ~after.completedAt
                ELSE /\ after.status = "FAILED"
                     /\ after.errorMessage /\ after.completedAt]_vars

\* a job has ended FAILED on its third attempt, no worker process lost
C29_Witness ==
  \E j \in DOMAIN jobs :
    /\ jobs[j].status = "FAILED"
    /\ jobs[j].attempts = maxAttempts
    /\ jobs[j].errorMessage /\ jobs[j].completedAt
    /\ ~jobs[j].locked
    /\ crashes = 0

\* the tool calls whose results have been stored as TOOL messages
DispatchedToolCalls == {m \in messages : m.role = "TOOL"}

\* C30: every tool call the pipeline has dispatched, whatever its outcome,
\* has left one ToolExecution row: there are at least as many rows as TOOL
\* messages holding a tool call's result
C30_EveryInvocationAudited ==
  toolExecutions >= Cardinality(DispatchedToolCalls)

\* call c's Step 3 has just run on a session of its tenant that is not ACTIVE
StatusCheckFailed(c) ==
  /\ call[c].pc = "load"
  /\ call'[c].pc # "load"
  /\ SessionTenant(call[c].sessionId) = call[c].tenantId
  /\ sessions[call[c].sessionId].status # "ACTIVE"

C32_NothingAddedAfterEnd ==
  [][\A s \in Sessions :
       sessions[s].status = "ENDED"
       => /\ SessionMessages(s)' = SessionMessages(s)
          /\ DOMAIN providerCalls' = DOMAIN providerCalls
          /\ usageEvents' = usageEvents]_vars

\* C33: once a job's status is COMPLETED it never changes again and its
\* output is never overwritten, whatever a worker with an earlier or later
\* claim on the job does
C33_CompletedIsFinal ==
  [][\A j \in DOMAIN jobs :
       jobs[j].status = "COMPLETED"
       => /\ jobs'[j].status = "COMPLETED"
          /\ jobs'[j].output = jobs[j].output]_vars

\* C34: a job's attempts never exceed maxAttempts; every execution of the
\* payload follows a claim that counted one attempt, so the payload runs at
\* most maxAttempts times
C34_AttemptsAtMostMax ==
  \A j \in DOMAIN jobs : jobs[j].attempts <= maxAttempts

\* C35: a createSession call made with demoMode d that returns a session
\* returns one whose demoMode is d, also when an ACTIVE session of the same
\* customer with the other demoMode exists or is being created
C35_ReturnedSessionHasDemoMode ==
  \A cr \in Creators :
    (create[cr].pc = "done" /\ create[cr].ret.kind = "session")
    => sessions[create[cr].ret.id].demoMode = create[cr].demoMode

\* C36: in every committed state a ProviderCall has billed = true exactly
\* if one UsageEvent references it, and never more than one does: the flag
\* update and the insert of createUsageEvent take effect together or not at
\* all
C36_BilledIffOneUsageEvent ==
  \A p \in DOMAIN providerCalls :
    /\ providerCalls[p].billed <=> UsageEventCount(p) = 1
    /\ UsageEventCount(p) <= 1

\* one call is billed after two invocations for it returned, while a
\* transaction for another call has run its update and not yet committed
C36_Witness ==
  \E p, q \in DOMAIN providerCalls :
    /\ p # q
    /\ providerCalls[p].billed /\ UsageEventCount(p) = 1
    /\ Cardinality({b \in Invocations(p) : bill[b].st = "returned"}) = 2
    /\ \E b \in Invocations(q) : bill[b].st = "insert" /\ bill[b].count = 1
    /\ ~providerCalls[q].billed /\ UsageEventCount(q) = 0

\* the orchestrator run has returned a failure; the error of its last attempt
OrchFailed == orch.phase = "done" /\ ~Succeeded(orch.result)
LastError == orch.errors[Len(orch.errors)].error

\* C37: when every attempt failed, the failure result carries TIMEOUT after
\* a final timeout and RATE_LIMITED after a final rate-limit error, and the
\* ProviderCall row persisted from it has status TIMEOUT, RATE_LIMITED, or
\* FAILED for any other error
C37_FailureCodeFromLastError ==
  OrchFailed
  => LET row == <<OrchMessage, orch.round>>
         expected == CASE LastError = "TimeoutError" -> "TIMEOUT"
                       [] LastError = "RateLimitError" -> "RATE_LIMITED"
                       [] OTHER -> "FAILED"
     IN /\ LastError = "TimeoutError" => orch.result = "TIMEOUT"
        /\ LastError = "RateLimitError" => orch.result = "RATE_LIMITED"
        /\ row \in DOMAIN providerCalls
             => providerCalls[row].status = expected

\* the attempt the result reports was made in the fallback path: the loop
\* variable was restarted there, the attempt number of the run was not
ReportedInFallbackPath == orch.attemptNumber > orch.attempt

\* C38: the result of an orchestrator run, and the ProviderCall row
\* persisted from it, has isFallback = true only if the attempt it reports
\* was made in the fallback path; with fallbackProvider equal to
\* primaryProvider isFallback is false, for failures as for successes
C38_IsFallbackOnlyInFallbackPath ==
  orch.phase = "done"
  => LET row == <<OrchMessage, orch.round>>
     IN /\ orch.isFallback => ReportedInFallbackPath
        /\ orch.fallbackProvider = primaryProvider => ~orch.isFallback
        /\ row \in DOMAIN providerCalls
             => (providerCalls[row].isFallback => ReportedInFallbackPath)

\* call c has just left the critical section and its finally block removed
\* the entry of session s from the lock map
ReleaseRemovedEntry(c, s) ==
  /\ call[c].pc \in CriticalPcs
  /\ call[c].sessionId = s
  /\ call'[c].pc = "done"
  /\ LockIsHeld(uuidToLockKey(s))
  /\ sessionLocks'[uuidToLockKey(s)] = "absent"

\* C39: the release made when a sendMessage call finishes removes only the
\* lock entry that call created: the entry in the map is the one set last,
\* so the releasing call is the last of the calls inside the critical
\* section to have acquired
C39_ReleaseOnlyOwnEntry ==
  [][\A c \in Calls, s \in Sessions :
       ReleaseRemovedEntry(c, s)
       => \A d \in InCriticalSection(s) :
            call[d].lockedAt <= call[c].lockedAt]_vars

\* C40: the USER message stored at number n by a call that returned with a
\* response is followed at n + 1 by an ASSISTANT message of that same call
C40_UserThenOwnAssistant ==
  \A c \in Calls :
    Returned(c)
    => \A u \in MessageOf(c, "user") :
         \E a \in SessionMessages(u.sessionId) :
           /\ a.sequenceNumber = u.sequenceNumber + 1
           /\ a.role = "ASSISTANT"
           /\ a.id[1] = c

\* C9: no call ends with the unique violation on (session, idempotencyKey)
\* raised by the insert of its USER message.
C9_KeyRaceSurfacesNoError ==
  \A c \in Calls :
    ~(Failed(c) /\ call[c].ret.code = "P2002"
                /\ call[c].ret.target = "idempotencyKey")

\* C10: once a call on a non-demo session has ended, with a response or with
\* an error, every SUCCESS ProviderCall it persisted has exactly one
\* UsageEvent.
C10_EverySuccessBilled ==
  \A c \in Calls :
    (call[c].pc = "done" /\ ~sessions[call[c].sessionId].demoMode)
    => \A p \in DOMAIN providerCalls :
         (providerCalls[p].by = c /\ providerCalls[p].status = "SUCCESS")
         => UsageEventCount(p) = 1

====
